---- MODULE Spec2Model ----
(***************************************************************************)
(* Model of the GitHub re-sync pipeline of src/helpers/githubOAuth.js:     *)
(* fetchAllPages (paginated fetcher), batchInsert (bulk replace writer)    *)
(* and the POST /resync handler that drives both.                          *)
(*                                                                         *)
(* The handler is an async function: every segment between two awaits is   *)
(* one action.  Responses of the GitHub API, timers and MongoDB operations *)
(* are steps of the environment; they are taken only when no continuation  *)
(* of the handler is ready (microtasks run before the next macrotask).     *)
(***************************************************************************)
EXTENDS Integers, Sequences, FiniteSets, TLC

VARIABLES
    integration,  \* the github-integration collection: "none", "notoken", "token"
    coll,         \* the seven github-* collections: name -> sequence of documents
    pc,           \* position of the running handler / driver
    res,          \* HTTP response of the /resync request
    agg,          \* orgs, repos, commits, pulls, issues, changelogs, users (handler locals)
    loop,         \* positions of the for-of loops: org, repo, issue
    fetches,      \* the fetchAllPages calls the handler awaits, by slot
    orphans,      \* fetchAllPages calls still running whose Promise.all already rejected
    w,            \* the batchInsert call in progress
    hist,         \* history of the run: requests and store operations issued, what was
                  \* fetched and what failed
    parked        \* a second /resync request being handled, suspended at an await:
                  \* <<>> or <<its frame>>

vars == <<integration, coll, pc, res, agg, loop, fetches, orphans, w, hist, parked>>

-----------------------------------------------------------------------------
(* Program constants *)

per_page == 100
DefaultMaxItems == 2000
CommitsMaxItems == 2000
PullsMaxItems == 500
IssuesMaxItems == 500
TimelineMaxItems == 500
DefaultBatchSize == 500

(* Bounds of the model *)

MaxFullPages == 1     \* full (per_page long) pages GitHub serves to one resync run
MaxFailures == 2      \* awaited requests of one resync run that GitHub fails
MaxOrgs == 2          \* organizations on one page of /user/orgs
MaxCalls == 2         \* consecutive batchInsert calls of the writer driver

Collections ==
    {"github-organizations", "github-repositories", "github-commits", "github-pulls",
     "github-issues", "github-issue-changelogs", "github-users"}

-----------------------------------------------------------------------------
(* Sequences *)

RECURSIVE Flatten(_)
Flatten(ss) == IF ss = <<>> THEN <<>> ELSE Head(ss) \o Flatten(Tail(ss))

Min(a, b) == IF a < b THEN a ELSE b

\* Array.prototype.slice(from, to) with 0-based from, exclusive to
Slice(s, from, to) == SubSeq(s, from + 1, Min(to, Len(s)))

-----------------------------------------------------------------------------
(* GitHub: the documents the API serves.  A document is identified by the  *)
(* path of numbers leading to it (org, repo, issue, event); user and       *)
(* author are optional sub-objects, <<>> when absent.                      *)

User(login, src) ==
    [kind |-> "user", id |-> src, login |-> login, user |-> <<>>, author |-> <<>>]

Doc(kind, id, user, author) ==
    [kind |-> kind, id |-> id, login |-> "", user |-> user, author |-> author]

Url(kind, of) == [kind |-> kind, of |-> of]

\* the n-th document of the resource at url
Item(url, n) ==
    LET id == Append(url.of, n) IN
    CASE url.kind = "commits" ->
            Doc("commits", id, <<>>, <<User(IF n % 2 = 1 THEN "alice" ELSE "bob", id)>>)
      [] url.kind = "pulls" ->
            Doc("pulls", id, <<User("alice", id)>>, <<User("carol", id)>>)
      [] url.kind = "issues" /\ n % 2 = 0 ->
            Doc("issues", id, <<User("Alice", id)>>, <<>>)
      [] OTHER -> Doc(url.kind, id, <<>>, <<>>)

\* page `page` of the resource at url when it holds n documents
PageOf(url, page, n) == [i \in 1..n |-> Item(url, (page - 1) * per_page + i)]

\* lengths of the pages GitHub may serve for a resource
ServerLens(url) ==
    CASE url.kind = "orgs" -> 0..MaxOrgs
      [] url.kind = "repos" -> {0, 1}
      [] url.kind = "commits" -> {2} \cup (IF hist.full < MaxFullPages THEN {per_page} ELSE {})
      [] url.kind = "pulls" -> {1}
      [] url.kind = "issues" -> {0, 2}
      [] url.kind = "timeline" ->
            {1} \cup (IF hist.full < MaxFullPages THEN {per_page} ELSE {})
      [] OTHER -> {0, 1, per_page}

\* what axios.get may produce: a rejection, a response without data, a page
Responses(url, page) ==
    (IF hist.fails < MaxFailures THEN {[ok |-> FALSE, null |-> FALSE, data |-> <<>>]} ELSE {})
    \cup (IF url.kind = "any" THEN {[ok |-> TRUE, null |-> TRUE, data |-> <<>>]} ELSE {})
    \cup {[ok |-> TRUE, null |-> FALSE, data |-> PageOf(url, page, n)] : n \in ServerLens(url)}

-----------------------------------------------------------------------------
(* fetchAllPages(url, headers, maxItems, delayMs) *)

IdleFetch ==
    [url |-> Url("none", <<>>), max |-> 0, page |-> 0, results |-> <<>>, st |-> "idle",
     reqs |-> <<>>, served |-> <<>>, delays |-> 0]

\* the call up to its first await: page 1 is requested
StartFetch(url, maxItems) ==
    [url |-> url, max |-> maxItems, page |-> 1, results |-> <<>>, st |-> "inflight",
     reqs |-> <<1>>, served |-> <<>>, delays |-> 0]

\* mutant: the cap is tested with > instead of >=
OnResponseStrictCap(f, r) ==
    IF ~r.ok
    THEN [f EXCEPT !.st = "failed", !.results = <<>>]
    ELSE LET g == [f EXCEPT !.served = Append(@, r.data)] IN
         IF r.null \/ Len(r.data) = 0
         THEN [g EXCEPT !.st = "done"]
         ELSE LET h == [g EXCEPT !.results = @ \o r.data] IN
              IF Len(h.results) > h.max THEN [h EXCEPT !.st = "done"]
              ELSE IF Len(r.data) < per_page THEN [h EXCEPT !.st = "done"]
              ELSE [h EXCEPT !.st = "delay", !.delays = @ + 1]

\* mutant: a failed request is retried
OnResponseRetries(f, r) ==
    IF ~r.ok
    THEN [f EXCEPT !.reqs = Append(@, f.page)]
    ELSE LET g == [f EXCEPT !.served = Append(@, r.data)] IN
         IF r.null \/ Len(r.data) = 0
         THEN [g EXCEPT !.st = "done"]
         ELSE LET h == [g EXCEPT !.results = @ \o r.data] IN
              IF Len(h.results) >= h.max THEN [h EXCEPT !.st = "done"]
              ELSE IF Len(r.data) < per_page THEN [h EXCEPT !.st = "done"]
              ELSE [h EXCEPT !.st = "delay", !.delays = @ + 1]

\* mutant: the next page is requested without the delay
OnResponseNoDelay(f, r) ==
    IF ~r.ok
    THEN [f EXCEPT !.st = "failed", !.results = <<>>]
    ELSE LET g == [f EXCEPT !.served = Append(@, r.data)] IN
         IF r.null \/ Len(r.data) = 0
         THEN [g EXCEPT !.st = "done"]
         ELSE LET h == [g EXCEPT !.results = @ \o r.data] IN
              IF Len(h.results) >= h.max THEN [h EXCEPT !.st = "done"]
              ELSE IF Len(r.data) < per_page THEN [h EXCEPT !.st = "done"]
              ELSE [h EXCEPT !.page = @ + 1, !.reqs = Append(@, f.page + 1)]

\* mutant: the cap is tested before the page is pushed
OnResponseCapBeforePush(f, r) ==
    IF ~r.ok
    THEN [f EXCEPT !.st = "failed", !.results = <<>>]
    ELSE LET g == [f EXCEPT !.served = Append(@, r.data)] IN
         IF r.null \/ Len(r.data) = 0
         THEN [g EXCEPT !.st = "done"]
         ELSE LET h == [g EXCEPT !.results = @ \o r.data] IN
              IF Len(f.results) >= h.max THEN [h EXCEPT !.st = "done"]
              ELSE IF Len(r.data) < per_page THEN [h EXCEPT !.st = "done"]
              ELSE [h EXCEPT !.st = "delay", !.delays = @ + 1]

\* the loop body from the answer of axios.get to the next await or the return
OnResponse(f, r) ==
    IF ~r.ok
    THEN [f EXCEPT !.st = "failed", !.results = <<>>]
    ELSE LET g == [f EXCEPT !.served = Append(@, r.data)] IN
         IF r.null \/ Len(r.data) = 0
         THEN [g EXCEPT !.st = "done"]
         ELSE LET h == [g EXCEPT !.results = @ \o r.data] IN
              IF Len(h.results) >= h.max THEN [h EXCEPT !.st = "done"]
              ELSE IF Len(r.data) < per_page THEN [h EXCEPT !.st = "done"]
              ELSE [h EXCEPT !.st = "delay", !.delays = @ + 1]

\* mutant: page++ is missing
OnTimerSamePage(f) ==
    [f EXCEPT !.st = "inflight", !.reqs = Append(@, f.page)]

\* the timer of the inter-page delay fires: page++ and the next request
OnTimer(f) ==
    [f EXCEPT !.page = @ + 1, !.st = "inflight", !.reqs = Append(@, f.page + 1)]

-----------------------------------------------------------------------------
(* The event loop around the handler *)

Slots == {"main", "commits", "pulls", "issues", "timeline"}

DetailSlots == {"commits", "pulls", "issues"}

WritePcs == {"wOrgs", "wRepos", "wCommits", "wPulls", "wIssues", "wChangelogs", "wUsers"}

Settled(f) == f.st \in {"done", "failed"}

\* Promise.all([...]) of the three detail fetches: rejected as soon as one of them
\* is rejected, fulfilled when all three are fulfilled
AllRejected == \E s \in DetailSlots : fetches[s].st = "failed"

AllFulfilled == \A s \in DetailSlots : fetches[s].st = "done"

\* the promise the handler awaits is settled: its continuation runs next
HandlerReady ==
    \/ pc \in {"orgs", "repos"} /\ Settled(fetches["main"])
    \/ pc = "detail" /\ (AllRejected \/ AllFulfilled)
    \/ pc = "timeline" /\ Settled(fetches["timeline"])
    \/ pc \in WritePcs /\ w.st \in {"returned", "threw"}

Full(r) == IF r.ok /\ Len(r.data) >= per_page THEN 1 ELSE 0

Failed(r) == IF r.ok THEN 0 ELSE 1

\* GitHub answers the request in flight of an awaited fetchAllPages call
ApiRespond(s) ==
    /\ fetches[s].st = "inflight"
    /\ ~HandlerReady
    /\ \E r \in Responses(fetches[s].url, fetches[s].page) :
         /\ fetches' = [fetches EXCEPT ![s] = OnResponse(@, r)]
         /\ hist' = [hist EXCEPT !.full = @ + Full(r), !.fails = @ + Failed(r),
                                 !.failedUrls = IF r.ok THEN @ ELSE @ \cup {fetches[s].url}]
    /\ UNCHANGED <<integration, parked, coll, pc, res, agg, loop, orphans, w>>

\* the setTimeout of an awaited fetchAllPages call fires
ApiTimer(s) ==
    /\ fetches[s].st = "delay"
    /\ ~HandlerReady
    /\ fetches' = [fetches EXCEPT ![s] = OnTimer(@)]
    /\ hist' = [hist EXCEPT !.nreq = @ + 1]
    /\ UNCHANGED <<integration, parked, coll, pc, res, agg, loop, orphans, w>>

\* the same two steps of a call whose Promise.all is already rejected: nobody
\* reads its result, it is forgotten once it has settled
OrphanRespond ==
    /\ ~HandlerReady
    /\ \E f \in orphans :
         /\ f.st = "inflight"
         /\ \E r \in Responses(f.url, f.page) :
              LET g == OnResponse(f, r) IN
              /\ orphans' = (orphans \ {f}) \cup (IF Settled(g) THEN {} ELSE {g})
              /\ hist' = [hist EXCEPT !.full = @ + Full(r)]
    /\ UNCHANGED <<integration, parked, coll, pc, res, agg, loop, fetches, w>>

OrphanTimer ==
    /\ ~HandlerReady
    /\ \E f \in orphans :
         /\ f.st = "delay"
         /\ orphans' = (orphans \ {f}) \cup {OnTimer(f)}
    /\ hist' = [hist EXCEPT !.nreq = @ + 1]
    /\ UNCHANGED <<integration, parked, coll, pc, res, agg, loop, fetches, w>>

-----------------------------------------------------------------------------
(* batchInsert(collection, docs, batchSize) *)

IdleWriter ==
    [name |-> "", given |-> FALSE, docs |-> <<>>, bs |-> 0, i |-> 0, st |-> "idle",
     ret |-> 0, ops |-> <<>>, before |-> <<>>,
     prevName |-> "", prevDocs |-> <<>>, prevOk |-> FALSE]

\* `!docs || docs.length === 0`
NoDocs(given, docs) == ~given \/ Len(docs) = 0

\* mutant: the early return on empty docs is missing
CallBatchInsertAlwaysDeletes(name, given, docs, batchSize) ==
    [name |-> name, given |-> given, docs |-> docs, bs |-> batchSize, i |-> 0,
     st |-> "delete",
     ret |-> 0, ops |-> <<>>, before |-> coll[name],
     prevName |-> w.name, prevDocs |-> w.docs,
     prevOk |-> (w.st = "returned" /\ ~NoDocs(w.given, w.docs))]

\* mutant: deleteMany is missing, the first insertMany is issued at once
CallBatchInsertNoDelete(name, given, docs, batchSize) ==
    [name |-> name, given |-> given, docs |-> docs, bs |-> batchSize, i |-> 0,
     st |-> IF NoDocs(given, docs) THEN "returned" ELSE "insert",
     ret |-> 0, ops |-> <<>>, before |-> coll[name],
     prevName |-> w.name, prevDocs |-> w.docs,
     prevOk |-> (w.st = "returned" /\ ~NoDocs(w.given, w.docs))]

\* the call up to its first await: either the early return, or deleteMany is issued.
\* before, prevName, prevDocs, prevOk record the collection as the call found it and
\* the call that came before it.
CallBatchInsert(name, given, docs, batchSize) ==
    [name |-> name, given |-> given, docs |-> docs, bs |-> batchSize, i |-> 0,
     st |-> IF NoDocs(given, docs) THEN "returned" ELSE "delete",
     ret |-> 0, ops |-> <<>>, before |-> coll[name],
     prevName |-> w.name, prevDocs |-> w.docs,
     prevOk |-> (w.st = "returned" /\ ~NoDocs(w.given, w.docs))]

\* mutant: the slice is one document too long
BatchOverlap(docs, i, batchSize) == Slice(docs, i, i + batchSize + 1)

\* docs.slice(i, i + batchSize)
Batch(docs, i, batchSize) == Slice(docs, i, i + batchSize)

\* the writer after the store operation it awaited has succeeded, at index i of the
\* for loop: the next insertMany is issued, or the call returns docs.length
WriterAt(wr, i) ==
    IF i < Len(wr.docs)
    THEN [wr EXCEPT !.i = i, !.st = "insert"]
    ELSE [wr EXCEPT !.i = i, !.st = "returned", !.ret = Len(wr.docs)]

\* mutant: deleteMany matches nothing
DeleteManyKeeps ==
    /\ w.st = "delete"
    /\ w' = WriterAt([w EXCEPT !.ops = Append(@, [op |-> "delete", docs |-> <<>>])], 0)
    /\ hist' = [hist EXCEPT !.nstore = @ + 1]
    /\ UNCHANGED <<integration, parked, coll, pc, res, agg, loop, fetches, orphans>>

\* deleteMany({}) answers
DeleteMany ==
    /\ w.st = "delete"
    /\ coll' = [coll EXCEPT ![w.name] = <<>>]
    /\ w' = WriterAt([w EXCEPT !.ops = Append(@, [op |-> "delete", docs |-> <<>>])], 0)
    /\ hist' = [hist EXCEPT !.nstore = @ + 1]
    /\ UNCHANGED <<integration, parked, pc, res, agg, loop, fetches, orphans>>

\* insertMany(batch) answers
InsertMany ==
    /\ w.st = "insert"
    /\ LET batch == Batch(w.docs, w.i, w.bs) IN
        /\ coll' = [coll EXCEPT ![w.name] = @ \o batch]
        /\ w' = WriterAt([w EXCEPT !.ops = Append(@, [op |-> "insert", docs |-> batch])],
                         w.i + w.bs)
    /\ hist' = [hist EXCEPT !.nstore = @ + 1]
    /\ UNCHANGED <<integration, parked, pc, res, agg, loop, fetches, orphans>>

\* mutant: the rejected operation aborts a transaction, the collection is again as
\* the call found it
StoreFailsRollsBack ==
    /\ w.st \in {"delete", "insert"}
    /\ w' = [w EXCEPT !.st = "threw"]
    /\ coll' = [coll EXCEPT ![w.name] = w.before]
    /\ hist' = [hist EXCEPT !.nstore = @ + 1, !.storeFailed = TRUE]
    /\ UNCHANGED <<integration, parked, pc, res, agg, loop, fetches, orphans>>

\* the store operation awaited is rejected: batchInsert has no catch, the call throws
\* and the collection is as the operations before left it
StoreFails ==
    /\ w.st \in {"delete", "insert"}
    /\ w' = [w EXCEPT !.st = "threw"]
    /\ hist' = [hist EXCEPT !.nstore = @ + 1, !.storeFailed = TRUE]
    /\ UNCHANGED <<integration, parked, coll, pc, res, agg, loop, fetches, orphans>>

-----------------------------------------------------------------------------
(* Initial states *)

OldDoc(c) == Doc(c, <<0>>, <<>>, <<>>)

NoHist ==
    [nreq |-> 0,          \* page requests issued
     nstore |-> 0,        \* deleteMany and insertMany operations issued
     full |-> 0,          \* full pages served
     fails |-> 0,         \* awaited requests failed
     failedUrls |-> {},   \* the resources an awaited request of which GitHub failed
     storeFailed |-> FALSE, \* a MongoDB operation was rejected
     coll0 |-> coll,      \* the collections as the run found them
     detail |-> <<>>,     \* per repository processed: what its three fetches gave
     timelines |-> <<>>,  \* per issue processed: what its timeline fetch gave
     calls |-> 0]         \* calls made by the writer driver

InitStore ==
    \E old \in BOOLEAN :
        coll = [c \in Collections |-> IF old THEN <<OldDoc(c)>> ELSE <<>>]

InitRun ==
    /\ res = "none"
    /\ agg = [orgs |-> <<>>, repos |-> <<>>, commits |-> <<>>, pulls |-> <<>>,
              issues |-> <<>>, changelogs |-> <<>>, users |-> <<>>]
    /\ loop = [org |-> 0, repo |-> 0, issue |-> 0]
    /\ fetches = [s \in Slots |-> IdleFetch]
    /\ orphans = {}
    /\ w = IdleWriter
    /\ hist = NoHist

-----------------------------------------------------------------------------
(* User extraction and deduplication (lines 213-237) *)

\* mutant: the author field is read before the user field
UserOfAuthorFirst(item) ==
    IF item.author # <<>> THEN item.author
    ELSE IF item.user # <<>> THEN item.user
    ELSE <<>>

\* the callback of arr.map: item.user, else item.author, else null
UserOf(item) ==
    IF item.user # <<>> THEN item.user
    ELSE IF item.author # <<>> THEN item.author
    ELSE <<>>

\* arr.map(...).filter(user => user !== null)
extractUsers(arr) ==
    LET mapped == [i \in 1..Len(arr) |-> UserOf(arr[i])]
        kept == SelectSeq(mapped, LAMBDA u : u # <<>>)
    IN [i \in 1..Len(kept) |-> kept[i][1]]

\* the keys of userMap in the order Map keeps them: that of their first insertion
MapKeys(users) ==
    LET first == SelectSeq([i \in 1..Len(users) |-> i],
                           LAMBDA i : \A j \in 1..(i - 1) : users[j].login # users[i].login)
    IN [k \in 1..Len(first) |-> users[first[k]].login]

\* mutant: the first user set under a login is kept
MapGetFirst(users, login) ==
    LET first == CHOOSE i \in 1..Len(users) :
                     /\ users[i].login = login
                     /\ \A j \in 1..(i - 1) : users[j].login # login
    IN users[first]

\* userMap.get(login) after the loop: the last user set under that login
MapGet(users, login) ==
    LET last == CHOOSE i \in 1..Len(users) :
                    /\ users[i].login = login
                    /\ \A j \in (i + 1)..Len(users) : users[j].login # login
    IN users[last]

\* Array.from(userMap.values())
uniqueUsers(users) ==
    LET keys == MapKeys(users) IN [k \in 1..Len(keys) |-> MapGet(users, keys[k])]

-----------------------------------------------------------------------------
(* router.post('/resync'): the handler, one action per segment between awaits *)

\* the locals of the handler as one record, to compute the next segment's state
Frame ==
    [pc |-> pc, res |-> res, agg |-> agg, loop |-> loop, fetches |-> fetches,
     orphans |-> orphans, w |-> w, hist |-> hist]

Become(F) ==
    /\ pc' = F.pc
    /\ res' = F.res
    /\ agg' = F.agg
    /\ loop' = F.loop
    /\ fetches' = F.fetches
    /\ orphans' = F.orphans
    /\ w' = F.w
    /\ hist' = F.hist
    /\ UNCHANGED <<integration, parked, coll>>

\* `await fetchAllPages(url, headers, maxItems)` in slot s
AwaitFetch(F, s, url, maxItems, at) ==
    [F EXCEPT !.fetches[s] = StartFetch(url, maxItems), !.hist.nreq = @ + 1, !.pc = at]

\* `await batchInsert(name, docs)`
AwaitInsert(F, name, docs, at) ==
    [F EXCEPT !.w = CallBatchInsert(name, TRUE, docs, DefaultBatchSize), !.pc = at]

\* line 175: the head of `for (const org of orgs)` at the k-th organization, and
\* line 179 after the loop
NextOrg(F, k) ==
    IF k <= Len(F.agg.orgs)
    THEN AwaitFetch([F EXCEPT !.loop.org = k], "main",
                    Url("repos", F.agg.orgs[k].id), DefaultMaxItems, "repos")
    ELSE AwaitInsert(F, "github-repositories", F.agg.repos, "wRepos")

\* line 188: the head of `for (const repo of repos)` at the k-th repository: the three
\* fetches of Promise.all start in order; after the loop, lines 232-240
NextRepo(F, k) ==
    IF k <= Len(F.agg.repos)
    THEN LET id == F.agg.repos[k].id
             F1 == AwaitFetch([F EXCEPT !.loop.repo = k], "commits",
                              Url("commits", id), CommitsMaxItems, "detail")
             F2 == AwaitFetch(F1, "pulls", Url("pulls", id), PullsMaxItems, "detail")
         IN AwaitFetch(F2, "issues", Url("issues", id), IssuesMaxItems, "detail")
    ELSE AwaitInsert(F, "github-commits", F.agg.commits, "wCommits")

\* lines 213-225, the end of the try block of one repository
RepoUsers(F) ==
    [F EXCEPT !.agg.users = @ \o extractUsers(F.fetches["commits"].results)
                              \o extractUsers(F.fetches["pulls"].results)
                              \o extractUsers(F.fetches["issues"].results)]

\* line 204: the head of `for (const issue of repoIssues)` at the k-th issue
NextIssue(F, k) ==
    LET repoIssues == F.fetches["issues"].results IN
    IF k <= Len(repoIssues)
    THEN AwaitFetch([F EXCEPT !.loop.issue = k], "timeline",
                    Url("timeline", repoIssues[k].id), TimelineMaxItems, "timeline")
    ELSE NextRepo(RepoUsers(F), F.loop.repo + 1)

\* history: what Promise.all of the repository just processed gave (nothing when
\* it was rejected)
Fetched(failed) ==
    [repo |-> agg.repos[loop.repo].id, failed |-> failed,
     commits |-> IF failed THEN <<>> ELSE fetches["commits"].results,
     pulls |-> IF failed THEN <<>> ELSE fetches["pulls"].results,
     issues |-> IF failed THEN <<>> ELSE fetches["issues"].results]

\* history: what the timeline fetch of the issue just processed gave
Timeline(failed) ==
    [issue |-> fetches["timeline"].url.of, failed |-> failed,
     pages |-> Len(fetches["timeline"].reqs),
     events |-> Flatten(fetches["timeline"].served)]

\* a request POST /resync arrives: findOne() is issued
Resync ==
    /\ pc = "idle"
    /\ pc' = "findOne"
    /\ hist' = [hist EXCEPT !.coll0 = coll]
    /\ UNCHANGED <<integration, parked, coll, res, agg, loop, fetches, orphans, w>>

\* mutant: the access token is not looked at
NoIntegrationRecord == integration = "none"

\* `!integration || !integration.accessToken`
NoIntegration == integration \in {"none", "notoken"}

\* lines 161-170: findOne() answers
FindOne ==
    /\ pc = "findOne"
    /\ IF NoIntegration
       THEN Become([Frame EXCEPT !.res = "400", !.pc = "done"])
       ELSE Become(AwaitFetch(Frame, "main", Url("orgs", <<>>), DefaultMaxItems, "orgs"))

\* findOne() is rejected: the outer catch answers
FindOneFails ==
    /\ pc = "findOne"
    /\ Become([Frame EXCEPT !.res = "500", !.pc = "done", !.hist.storeFailed = TRUE])

\* lines 170-171
OrgsFetched ==
    /\ pc = "orgs"
    /\ fetches["main"].st = "done"
    /\ LET orgs == fetches["main"].results IN
       Become(AwaitInsert([Frame EXCEPT !.agg.orgs = orgs],
                          "github-organizations", orgs, "wOrgs"))

\* lines 171-176
OrgsWritten ==
    /\ pc = "wOrgs"
    /\ w.st = "returned"
    /\ Become(NextOrg(Frame, 1))

\* lines 176-179
ReposFetched ==
    /\ pc = "repos"
    /\ fetches["main"].st = "done"
    /\ Become(NextOrg([Frame EXCEPT !.agg.repos = @ \o fetches["main"].results],
                      loop.org + 1))

\* lines 179-197
ReposWritten ==
    /\ pc = "wRepos"
    /\ w.st = "returned"
    /\ Become(NextRepo(Frame, 1))

\* lines 193-206: Promise.all is fulfilled
DetailFetched ==
    /\ pc = "detail"
    /\ AllFulfilled
    /\ Become(NextIssue([Frame EXCEPT
                            !.agg.commits = @ \o fetches["commits"].results,
                            !.agg.pulls = @ \o fetches["pulls"].results,
                            !.agg.issues = @ \o fetches["issues"].results,
                            !.hist.detail = Append(@, Fetched(FALSE))], 1))

\* mutant: the catch of the repository leaves the loop
DetailFailedBreaks ==
    /\ pc = "detail"
    /\ AllRejected
    /\ LET left == {fetches[s] : s \in {t \in DetailSlots : ~Settled(fetches[t])}} IN
       Become(NextRepo([Frame EXCEPT !.orphans = @ \cup left,
                                     !.hist.detail = Append(@, Fetched(TRUE))],
                       Len(agg.repos) + 1))

\* mutant: the try block of the repository is missing, the rejection reaches the
\* outer catch
DetailFailedUncaught ==
    /\ pc = "detail"
    /\ AllRejected
    /\ LET left == {fetches[s] : s \in {t \in DetailSlots : ~Settled(fetches[t])}} IN
       Become([Frame EXCEPT !.orphans = @ \cup left,
                            !.hist.detail = Append(@, Fetched(TRUE)),
                            !.res = "500", !.pc = "done"])

\* mutant: the lists are pushed one by one as they arrive, the catch of the
\* repository finds those of the fetches already fulfilled appended
DetailFailedKeepsPartial ==
    /\ pc = "detail"
    /\ AllRejected
    /\ LET left == {fetches[s] : s \in {t \in DetailSlots : ~Settled(fetches[t])}} IN
       Become(NextRepo([Frame EXCEPT !.orphans = @ \cup left,
                                     !.agg.commits = @ \o fetches["commits"].results,
                                     !.agg.pulls = @ \o fetches["pulls"].results,
                                     !.agg.issues = @ \o fetches["issues"].results,
                                     !.hist.detail = Append(@, Fetched(TRUE))],
                       loop.repo + 1))

\* lines 227-229: Promise.all is rejected, the catch of the repository; the fetches
\* of the repository still running go on unawaited
DetailFailed ==
    /\ pc = "detail"
    /\ AllRejected
    /\ LET left == {fetches[s] : s \in {t \in DetailSlots : ~Settled(fetches[t])}} IN
       Become(NextRepo([Frame EXCEPT !.orphans = @ \cup left,
                                     !.hist.detail = Append(@, Fetched(TRUE))],
                       loop.repo + 1))

\* lines 206-207
TimelineFetched ==
    /\ pc = "timeline"
    /\ fetches["timeline"].st = "done"
    /\ Become(NextIssue([Frame EXCEPT !.agg.changelogs = @ \o fetches["timeline"].results,
                                       !.hist.timelines = Append(@, Timeline(FALSE))],
                        loop.issue + 1))

\* mutant: the try block of the issue is missing, the rejection reaches the catch
\* of the repository
TimelineFailedUncaught ==
    /\ pc = "timeline"
    /\ fetches["timeline"].st = "failed"
    /\ Become(NextRepo([Frame EXCEPT !.hist.timelines = Append(@, Timeline(TRUE))],
                       loop.repo + 1))

\* lines 208-210: the catch of the issue
TimelineFailed ==
    /\ pc = "timeline"
    /\ fetches["timeline"].st = "failed"
    /\ Become(NextIssue([Frame EXCEPT !.hist.timelines = Append(@, Timeline(TRUE))],
                        loop.issue + 1))

\* lines 240-256: the writes of step 4, one after the other, then the answer
Written ==
    /\ pc \in {"wCommits", "wPulls", "wIssues", "wChangelogs", "wUsers"}
    /\ w.st = "returned"
    /\ Become(CASE pc = "wCommits" -> AwaitInsert(Frame, "github-pulls", agg.pulls, "wPulls")
                [] pc = "wPulls" -> AwaitInsert(Frame, "github-issues", agg.issues, "wIssues")
                [] pc = "wIssues" ->
                     AwaitInsert(Frame, "github-issue-changelogs", agg.changelogs, "wChangelogs")
                [] pc = "wChangelogs" ->
                     AwaitInsert(Frame, "github-users", uniqueUsers(agg.users), "wUsers")
                [] pc = "wUsers" -> [Frame EXCEPT !.res = "200", !.pc = "done"])

\* mutant: the outer catch restores the collections as the run found them
OuterCatchRollsBack ==
    /\ \/ pc \in {"orgs", "repos"} /\ fetches["main"].st = "failed"
       \/ pc \in WritePcs /\ w.st = "threw"
    /\ coll' = hist.coll0
    /\ pc' = "done"
    /\ res' = "500"
    /\ UNCHANGED <<integration, parked, agg, loop, fetches, orphans, w, hist>>

\* lines 258-261: a rejection outside the two inner try blocks
OuterCatch ==
    /\ \/ pc \in {"orgs", "repos"} /\ fetches["main"].st = "failed"
       \/ pc \in WritePcs /\ w.st = "threw"
    /\ Become([Frame EXCEPT !.res = "500", !.pc = "done"])

\* the server waits for a request; the collections hold what an earlier run left
Init ==
    /\ integration \in {"none", "notoken", "token"}
    /\ coll = [c \in Collections |-> <<OldDoc(c)>>]
    /\ InitRun
    /\ pc = "idle"
    /\ parked = <<>>

Next ==
    \/ Resync
    \/ FindOne
    \/ FindOneFails
    \/ OrgsFetched
    \/ OrgsWritten
    \/ ReposFetched
    \/ ReposWritten
    \/ DetailFetched
    \/ DetailFailed
    \/ TimelineFetched
    \/ TimelineFailed
    \/ Written
    \/ OuterCatch
    \/ \E s \in Slots : ApiRespond(s)
    \/ \E s \in Slots : ApiTimer(s)
    \/ OrphanRespond
    \/ OrphanTimer
    \/ DeleteMany
    \/ InsertMany
    \/ StoreFails

Spec == Init /\ [][Next]_vars

-----------------------------------------------------------------------------
(* The fetcher on its own: one call of fetchAllPages against any server *)

MaxItemsChoices == {1, 2, per_page, 150, 250, PullsMaxItems, DefaultMaxItems}

FetchCall ==
    /\ pc = "fetcher"
    /\ fetches["main"].st = "idle"
    /\ \E m \in MaxItemsChoices :
         fetches' = [fetches EXCEPT !["main"] = StartFetch(Url("any", <<>>), m)]
    /\ hist' = [hist EXCEPT !.nreq = @ + 1]
    /\ UNCHANGED <<integration, parked, coll, pc, res, agg, loop, orphans, w>>

InitFetch == integration = "token" /\ InitStore /\ InitRun /\ pc = "fetcher" /\ parked = <<>>

NextFetch == FetchCall \/ (\E s \in Slots : ApiRespond(s)) \/ (\E s \in Slots : ApiTimer(s))

SpecFetch == InitFetch /\ [][NextFetch]_vars

\* the same call when GitHub answers every request and every timer fires
SpecFetchLive == InitFetch /\ [][NextFetch]_vars /\ WF_vars(NextFetch)

-----------------------------------------------------------------------------
(* The writer on its own: consecutive calls of batchInsert *)

BatchSizes == {2, DefaultBatchSize}

DocLens(bs) == IF bs = DefaultBatchSize THEN {1, bs + 1} ELSE 0..3

DocsOf(n) == [i \in 1..n |-> Item(Url("any", <<>>), i)]

WriterCall ==
    /\ pc = "writer"
    /\ w.st \in {"idle", "returned", "threw"}
    /\ hist.calls < MaxCalls
    /\ \E name \in {"github-commits", "github-pulls"}, bs \in BatchSizes, given \in BOOLEAN :
         \E n \in (IF given THEN DocLens(bs) ELSE {0}) :
            /\ ~given => bs = DefaultBatchSize
            /\ w' = CallBatchInsert(name, given, DocsOf(n), bs)
    /\ hist' = [hist EXCEPT !.calls = @ + 1]
    /\ UNCHANGED <<integration, parked, coll, pc, res, agg, loop, fetches, orphans>>

WriterStep ==
    /\ pc = "writer"
    /\ (DeleteMany \/ InsertMany \/ StoreFails)

InitWriter == integration = "token" /\ InitStore /\ InitRun /\ pc = "writer" /\ parked = <<>>

NextWriter == WriterCall \/ WriterStep

SpecWriter == InitWriter /\ [][NextWriter]_vars

-----------------------------------------------------------------------------
(* Two /resync requests handled at the same time.  Node runs one handler    *)
(* until its next await, then any handler whose awaited promise is settled: *)
(* the frame in the variables is the one that runs, the other one is parked *)
(* and the two change places between segments.  GitHub and MongoDB are up:  *)
(* every request is answered with a short page, every store operation       *)
(* succeeds.                                                                *)

\* lengths of the one page GitHub serves for a resource while two runs overlap
OverlapLens(url) == IF url.kind = "commits" THEN {1, 2} ELSE {1}

\* GitHub answers the request in flight of an awaited fetchAllPages call
OverlapRespond(s) ==
    /\ fetches[s].st = "inflight"
    /\ ~HandlerReady
    /\ \E n \in OverlapLens(fetches[s].url) :
         fetches' = [fetches EXCEPT ![s] =
                        OnResponse(@, [ok |-> TRUE, null |-> FALSE,
                                       data |-> PageOf(fetches[s].url, fetches[s].page, n)])]
    /\ UNCHANGED <<integration, parked, coll, pc, res, agg, loop, orphans, w, hist>>

\* the running handler is suspended at its await and the other one goes on
Switch ==
    /\ parked # <<>>
    /\ pc' = parked[1].pc
    /\ res' = parked[1].res
    /\ agg' = parked[1].agg
    /\ loop' = parked[1].loop
    /\ fetches' = parked[1].fetches
    /\ orphans' = parked[1].orphans
    /\ w' = parked[1].w
    /\ hist' = parked[1].hist
    /\ parked' = <<Frame>>
    /\ UNCHANGED <<integration, coll>>

\* two requests have arrived, neither handler has started
InitOverlap ==
    /\ integration = "token"
    /\ coll = [c \in Collections |-> <<OldDoc(c)>>]
    /\ InitRun
    /\ pc = "idle"
    /\ parked = <<Frame>>

NextOverlap ==
    \/ Resync
    \/ FindOne
    \/ OrgsFetched
    \/ OrgsWritten
    \/ ReposFetched
    \/ ReposWritten
    \/ DetailFetched
    \/ TimelineFetched
    \/ Written
    \/ \E s \in Slots : OverlapRespond(s)
    \/ DeleteMany
    \/ InsertMany
    \/ Switch

SpecOverlap == InitOverlap /\ [][NextOverlap]_vars

-----------------------------------------------------------------------------
(* Properties of the resync run *)

\* the batch the run hands to batchInsert for each collection
BatchFor(c) ==
    CASE c = "github-organizations" -> agg.orgs
      [] c = "github-repositories" -> agg.repos
      [] c = "github-commits" -> agg.commits
      [] c = "github-pulls" -> agg.pulls
      [] c = "github-issues" -> agg.issues
      [] c = "github-issue-changelogs" -> agg.changelogs
      [] c = "github-users" -> uniqueUsers(agg.users)

RunSucceeded == pc = "done" /\ res = "200"

\* C1 as claimed: after a run that reports success every collection holds exactly
\* the batch aggregated for it in that run, whatever the size of the batch.
C1_AsClaimed == RunSucceeded => \A c \in Collections : coll[c] = BatchFor(c)

\* C1 as amended: after a run that reports success, every collection whose batch is
\* not empty holds exactly that batch and nothing of an earlier run, and every
\* collection whose batch is empty holds what it held before the run.
C1_ReplaceUnlessEmpty ==
    RunSucceeded =>
        \A c \in Collections :
            coll[c] = IF BatchFor(c) # <<>> THEN BatchFor(c) ELSE hist.coll0[c]

\* a successful run that replaced one collection and left another, with an empty
\* batch, as it was
C1_Witness ==
    /\ RunSucceeded
    /\ agg.commits # <<>> /\ coll["github-commits"] = agg.commits
    /\ hist.coll0["github-commits"] # <<>>
    /\ agg.issues = <<>> /\ coll["github-issues"] # <<>>

\* the parts of the history of repositories whose Promise.all was fulfilled
OkCommits == Flatten([k \in 1..Len(hist.detail) |-> hist.detail[k].commits])
OkPulls == Flatten([k \in 1..Len(hist.detail) |-> hist.detail[k].pulls])
OkIssues == Flatten([k \in 1..Len(hist.detail) |-> hist.detail[k].issues])

\* the resources an awaited request of which GitHub failed, by kind
FailedKinds == {u.kind : u \in hist.failedUrls}

\* GitHub failed a request for a page of the commits, pulls or issues of a repository
SomeRepoFailed == FailedKinds \cap {"commits", "pulls", "issues"} # {}

Persisted(c, batch) == batch # <<>> => coll[c] = batch

\* C2: when a commits, pulls or issues fetch of a repository fails, the run goes on
\* to the next repository (every repository is processed), reports success unless a
\* store operation fails, and what the fetches of the other repositories gave is
\* aggregated and persisted; the failed repository contributes nothing.
C2_RepoIsolation ==
    (pc = "done" /\ SomeRepoFailed /\ ~hist.storeFailed) =>
        /\ res = "200"
        /\ Len(hist.detail) = Len(agg.repos)
        /\ \A k \in 1..Len(hist.detail) : hist.detail[k].repo = agg.repos[k].id
        /\ agg.commits = OkCommits /\ Persisted("github-commits", OkCommits)
        /\ agg.pulls = OkPulls /\ Persisted("github-pulls", OkPulls)
        /\ agg.issues = OkIssues /\ Persisted("github-issues", OkIssues)

\* the first of two repositories failed and the commits of the second are stored
C2_Witness ==
    /\ RunSucceeded
    /\ Len(hist.detail) = 2
    /\ hist.detail[1].failed /\ ~hist.detail[2].failed
    /\ coll["github-commits"] = hist.detail[2].commits
    /\ hist.detail[2].commits # <<>>

\* the events served for the issues other than those whose timeline failed
OkEvents == Flatten([k \in 1..Len(hist.timelines) |->
                        IF Url("timeline", hist.timelines[k].issue) \in hist.failedUrls
                        THEN <<>> ELSE hist.timelines[k].events])

\* the event belongs to the timeline of the issue
EventOf(e, issue) == SubSeq(e.id, 1, Len(issue)) = issue

\* GitHub failed one request of the run, a request for a page of an issue's timeline
OnlyOneTimelineFailed == hist.fails = 1 /\ FailedKinds = {"timeline"}

FailedIssue(issue) == Url("timeline", issue) \in hist.failedUrls

\* C3: when the timeline fetch of one issue fails, on whichever page, and every
\* other fetch succeeds, the run reports success unless a store operation fails, a
\* timeline was requested for every issue, and the issue-changelogs batch is the
\* concatenation of the events of the other issues in order, with no event of the
\* failed issue.
C3_IssueIsolation ==
    (pc = "done" /\ OnlyOneTimelineFailed /\ ~hist.storeFailed) =>
        /\ res = "200"
        /\ Len(hist.timelines) = Len(agg.issues)
        /\ \A k \in 1..Len(hist.timelines) : hist.timelines[k].issue = agg.issues[k].id
        /\ agg.changelogs = OkEvents
        /\ Persisted("github-issue-changelogs", OkEvents)
        /\ \A k \in 1..Len(agg.issues) :
              FailedIssue(agg.issues[k].id) =>
                 \A i \in 1..Len(agg.changelogs) :
                    ~EventOf(agg.changelogs[i], agg.issues[k].id)

\* the timeline of the first issue failed on its second page, after a full page of
\* events, and the events of the second issue are stored
C3_Witness ==
    /\ RunSucceeded
    /\ OnlyOneTimelineFailed
    /\ Len(hist.timelines) = 2
    /\ FailedIssue(hist.timelines[1].issue) /\ hist.timelines[1].pages = 2
    /\ hist.timelines[1].events # <<>>
    /\ coll["github-issue-changelogs"] = hist.timelines[2].events
    /\ hist.timelines[2].events # <<>>

HasToken == integration = "token"

\* C4 as claimed: with an access token on record, no failure of an external fetch
\* makes the run report failure.
C4_AsClaimed == (pc = "done" /\ HasToken /\ ~hist.storeFailed) => res = "200"

\* C4 as amended: with an access token on record and no store failure, the run
\* reports failure exactly when the organizations fetch or the repositories fetch of
\* an organization failed; a failure of a commits, pulls, issues or timeline fetch
\* does not make it report failure.
C4_OnlyOuterFetchesAbort ==
    (pc = "done" /\ HasToken /\ ~hist.storeFailed) =>
        /\ res \in {"200", "500"}
        /\ res = "500" <=> FailedKinds \cap {"orgs", "repos"} # {}

\* a run that reported success although a detail fetch and a timeline fetch failed
C4_Witness ==
    /\ RunSucceeded
    /\ FailedKinds \cap {"commits", "pulls", "issues"} # {}
    /\ "timeline" \in FailedKinds

\* C5: with no integration record, or a record without access token, the run issues
\* no request to GitHub and no delete or insert, leaves every collection as it was,
\* and answers 400 (no active integration) as soon as findOne has answered.
C5_NoIntegrationFailsFast ==
    integration \in {"none", "notoken"} =>
        /\ hist.nreq = 0 /\ hist.nstore = 0
        /\ coll = hist.coll0
        /\ \A s \in Slots : fetches[s].st = "idle"
        /\ pc \in {"idle", "findOne", "done"}
        /\ (pc = "done" /\ ~hist.storeFailed) => res = "400"

\* the record exists but holds no access token, and the request was answered
C5_Witness == integration = "notoken" /\ pc = "done" /\ res = "400"

-----------------------------------------------------------------------------
(* Properties of batchInsert *)

\* C6: batchInsert with empty or missing docs issues no delete and no insert,
\* leaves the collection as it found it and returns 0.
C6_EmptyIsNoOp ==
    (w.st \in {"returned", "threw", "delete", "insert"} /\ NoDocs(w.given, w.docs)) =>
        /\ w.st = "returned"
        /\ w.ops = <<>>
        /\ coll[w.name] = w.before
        /\ w.ret = 0

\* a call with an empty array returned and the collection still holds the documents
\* the call before it wrote
C6_Witness ==
    /\ pc = "writer" /\ w.st = "returned"
    /\ w.given /\ w.docs = <<>>
    /\ w.prevOk /\ w.prevName = w.name
    /\ coll[w.name] = w.prevDocs

\* the call follows a completed call with the same collection and the same docs
SecondOfTwo ==
    /\ w.prevOk
    /\ w.prevName = w.name
    /\ w.prevDocs = w.docs
    /\ ~NoDocs(w.given, w.docs)

\* C7: during and after a second call of batchInsert with the same N >= 1 docs the
\* collection never holds more than N documents, and once the second call has
\* returned it holds exactly the N docs.
C7_ReplaceNotAppend ==
    SecondOfTwo =>
        /\ Len(coll[w.name]) <= Len(w.docs)
        /\ w.st = "returned" => coll[w.name] = w.docs

\* the second call with the same three docs has returned
C7_Witness ==
    /\ pc = "writer" /\ SecondOfTwo /\ w.st = "returned"
    /\ Len(w.docs) = 3 /\ Len(coll[w.name]) = 3

\* the operations of the call: one delete, then inserts only
DeleteThenInserts(ops) ==
    /\ Len(ops) >= 2
    /\ ops[1].op = "delete"
    /\ \A k \in 2..Len(ops) : ops[k].op = "insert"

\* C8: a call of batchInsert with N >= 1 docs that returns has issued deleteMany
\* first and then only insertMany, each of 1 to batchSize docs, all but the last of
\* exactly batchSize, which concatenated in order are docs; the collection then
\* holds exactly docs in order and the call returns N.
C8_DeleteThenBatches ==
    (w.st = "returned" /\ ~NoDocs(w.given, w.docs)) =>
        /\ DeleteThenInserts(w.ops)
        /\ \A k \in 2..Len(w.ops) :
              /\ Len(w.ops[k].docs) \in 1..w.bs
              /\ k < Len(w.ops) => Len(w.ops[k].docs) = w.bs
        /\ Flatten([k \in 1..Len(w.ops) |-> w.ops[k].docs]) = w.docs
        /\ coll[w.name] = w.docs
        /\ w.ret = Len(w.docs)

\* 501 docs went in as a batch of 500 and a batch of 1 into a collection that held
\* something else
C8_Witness ==
    /\ pc = "writer" /\ w.st = "returned"
    /\ w.bs = DefaultBatchSize /\ Len(w.docs) = DefaultBatchSize + 1
    /\ Len(w.ops) = 3
    /\ w.before # <<>> /\ w.before # w.docs

-----------------------------------------------------------------------------
(* Properties of fetchAllPages *)

TheFetch == fetches["main"]

\* the number of items accumulated after the k-th page served
AccumulatedAfter(f, k) == Len(Flatten(SubSeq(f.served, 1, k)))

\* C9: once the items accumulated after a page reach maxItems, that page is the last
\* one requested, and the call returns all the items of all the pages served, at
\* least maxItems of them: the last page is kept whole.
C9_SoftCap ==
    LET f == TheFetch IN
    /\ \A k \in 1..Len(f.served) :
          AccumulatedAfter(f, k) >= f.max =>
              /\ k = Len(f.served)
              /\ Len(f.reqs) = k
              /\ f.st = "done"
    /\ (f.st = "done" /\ Len(Flatten(f.served)) >= f.max) =>
          /\ f.results = Flatten(f.served)
          /\ Len(f.results) >= f.max

\* a cap of 150 was reached by two full pages: 200 items are returned
C9_Witness ==
    LET f == TheFetch IN
    /\ pc = "fetcher" /\ f.st = "done"
    /\ f.max = 150
    /\ Len(f.served) = 2
    /\ Len(f.results) = 2 * per_page

\* C10: pages are requested one after another from page 1, no page is requested
\* after a page of fewer than per_page items, and a call that ends on such a page
\* returns the concatenation, in order, of the pages served.
C10_ShortPageEnds ==
    LET f == TheFetch IN
    /\ f.reqs = [k \in 1..Len(f.reqs) |-> k]
    /\ Len(f.served) <= Len(f.reqs)
    /\ \A k \in 1..Len(f.served) :
          Len(f.served[k]) < per_page => (k = Len(f.served) /\ Len(f.reqs) = k /\ f.st = "done")
    /\ (f.st = "done" /\ Len(f.served[Len(f.served)]) < per_page) =>
          f.results = Flatten(f.served)

\* two full pages and a page of one item were served below the cap
C10_Witness ==
    LET f == TheFetch IN
    /\ pc = "fetcher" /\ f.st = "done"
    /\ Len(f.served) = 3
    /\ Len(f.served[3]) = 1
    /\ Len(f.results) = 2 * per_page + 1

\* GitHub failed a request of the call
RequestFailed(f) == f.url \in hist.failedUrls

\* C11: when a page request of a call fails, the call is rejected at once: the failed
\* request is the last one it issued (no retry, no later page), every page was
\* requested once, and the caller gets none of the items of the pages served before.
C11_FailureRaisedAtOnce ==
    LET f == TheFetch IN
    RequestFailed(f) =>
        /\ f.st = "failed"
        /\ f.results = <<>>
        /\ Len(f.reqs) = Len(f.served) + 1
        /\ f.reqs = [k \in 1..Len(f.reqs) |-> k]

\* the request for page 3 failed after two full pages had been served
C11_Witness ==
    LET f == TheFetch IN
    /\ pc = "fetcher" /\ RequestFailed(f) /\ f.st = "failed"
    /\ Len(f.served) = 2 /\ Len(f.served[2]) = per_page
    /\ f.reqs = <<1, 2, 3>>
    /\ f.results = <<>>

-----------------------------------------------------------------------------
(* Properties of the user extraction and of the writes of a run *)

\* the users batch handed to batchInsert
UsersBatch == w.docs

UsersHandedOver == w.name = "github-users" /\ pc \in {"wUsers", "done"}

\* the record is the last of the extracted users with its login
LastSeen(u, users) ==
    \E k \in 1..Len(users) :
        /\ users[k] = u
        /\ \A j \in (k + 1)..Len(users) : users[j].login # u.login

\* C12: the users batch a run persists holds no two records with the same login
\* (compared exactly), every login extracted is in it, and each record is, whole and
\* unchanged, the last of the extracted records with its login; a run that reports
\* success has stored exactly that batch.
C12_LastSeenWins ==
    UsersHandedOver =>
        /\ \A i, j \in 1..Len(UsersBatch) :
              UsersBatch[i].login = UsersBatch[j].login => i = j
        /\ \A k \in 1..Len(agg.users) :
              \E i \in 1..Len(UsersBatch) : UsersBatch[i].login = agg.users[k].login
        /\ \A i \in 1..Len(UsersBatch) : LastSeen(UsersBatch[i], agg.users)
        /\ (RunSucceeded /\ UsersBatch # <<>>) => coll["github-users"] = UsersBatch

\* alice was extracted from a commit and later from a pull: the record stored is the
\* one of the pull, next to the record of Alice
C12_Witness ==
    /\ RunSucceeded /\ UsersHandedOver
    /\ \E k \in 1..Len(agg.users) :
          /\ agg.users[k].login = "alice"
          /\ \A i \in 1..Len(coll["github-users"]) : coll["github-users"][i] # agg.users[k]
    /\ \E i, j \in 1..Len(coll["github-users"]) :
          /\ coll["github-users"][i].login = "alice"
          /\ coll["github-users"][j].login = "Alice"

\* no request of the run was failed by GitHub
NoFetchFailed == hist.fails = 0 /\ hist.failedUrls = {}

\* the commits, pulls and issues the run fetched
FetchedItems ==
    {OkCommits[i] : i \in 1..Len(OkCommits)}
    \cup {OkPulls[i] : i \in 1..Len(OkPulls)}
    \cup {OkIssues[i] : i \in 1..Len(OkIssues)}

\* the user records they carry: the user field, or the author field of an item
\* without user field
FetchedUsers ==
    {it.user[1] : it \in {x \in FetchedItems : x.user # <<>>}}
    \cup {it.author[1] : it \in {x \in FetchedItems : x.user = <<>> /\ x.author # <<>>}}

FetchedLogins == {u.login : u \in FetchedUsers}

\* the collection holds one record for each login fetched, each a record fetched
ExactlyFetchedUsers(users) ==
    /\ {users[i].login : i \in 1..Len(users)} = FetchedLogins
    /\ Len(users) = Cardinality(FetchedLogins)
    /\ \A i \in 1..Len(users) : users[i] \in FetchedUsers

\* C13 as claimed: after a run in which every fetch succeeded the users collection
\* holds exactly one record per login fetched and no other record, and the commits
\* and pulls collections hold exactly the commits and pulls fetched.
C13_AsClaimed ==
    (RunSucceeded /\ NoFetchFailed) =>
        /\ ExactlyFetchedUsers(coll["github-users"])
        /\ coll["github-commits"] = OkCommits
        /\ coll["github-pulls"] = OkPulls

\* what the collection holds after a successful run that fetched `fetched` for it
KeptOrReplaced(c, fetched) == coll[c] = IF fetched # <<>> THEN fetched ELSE hist.coll0[c]

\* C13 as amended: after a run that reports success and in which every fetch
\* succeeded, the users collection holds exactly one record per login fetched and no
\* other record when at least one user was fetched, and the commits and pulls
\* collections hold exactly the commits and pulls fetched when there are any; a
\* collection for which nothing was fetched holds what it held before the run.
C13_FetchedIsStored ==
    (RunSucceeded /\ NoFetchFailed) =>
        /\ FetchedUsers # {} => ExactlyFetchedUsers(coll["github-users"])
        /\ FetchedUsers = {} => coll["github-users"] = hist.coll0["github-users"]
        /\ KeptOrReplaced("github-commits", OkCommits)
        /\ KeptOrReplaced("github-pulls", OkPulls)

\* two commits by alice and bob, one pull by alice (user) and carol (author), no
\* issue: users alice and bob, 2 commits, 1 pull
C13_Witness ==
    /\ RunSucceeded /\ NoFetchFailed
    /\ Len(OkCommits) = 2 /\ Len(OkPulls) = 1 /\ Len(OkIssues) = 0
    /\ {coll["github-users"][i].login : i \in 1..Len(coll["github-users"])} = {"alice", "bob"}
    /\ Len(coll["github-users"]) = 2
    /\ Len(coll["github-commits"]) = 2 /\ Len(coll["github-pulls"]) = 1

\* the order in which a run writes the collections
WriteOrder ==
    <<"github-organizations", "github-repositories", "github-commits", "github-pulls",
      "github-issues", "github-issue-changelogs", "github-users">>

WritePos(c) == CHOOSE k \in 1..Len(WriteOrder) : WriteOrder[k] = c

\* a deleteMany or insertMany of the run's batchInsert call was rejected
WriteFailed == w.st = "threw" /\ pc \in WritePcs \cup {"done"}

\* C14: when a delete or insert of the write of one collection fails, the run
\* answers 500, every collection written before it in the run holds its new batch
\* (or, its batch being empty, what it held), and every collection after it in the
\* write order holds what it held before the run.
C14_NoRollback ==
    WriteFailed =>
        /\ pc = "done" => res = "500"
        /\ \A c \in Collections :
              WritePos(c) < WritePos(w.name) =>
                 coll[c] = IF BatchFor(c) # <<>> THEN BatchFor(c) ELSE hist.coll0[c]
        /\ \A c \in Collections :
              WritePos(c) > WritePos(w.name) => coll[c] = hist.coll0[c]

\* the write of the pulls failed: the run answered 500, the commits collection holds
\* the commits of this run and the issues collection those of the run before
C14_Witness ==
    /\ WriteFailed /\ pc = "done" /\ res = "500"
    /\ w.name = "github-pulls"
    /\ agg.commits # <<>> /\ coll["github-commits"] = agg.commits
    /\ coll["github-commits"] # hist.coll0["github-commits"]
    /\ agg.issues # <<>> /\ coll["github-issues"] = hist.coll0["github-issues"]

\* the resources for which a page request is in flight
RequestsInFlight ==
    {fetches[s].url : s \in {t \in Slots : fetches[t].st = "inflight"}}
    \cup {f.url : f \in {g \in orphans : g.st = "inflight"}}

\* the resources a fetchAllPages call for which has not settled
FetchesRunning ==
    {fetches[s].url : s \in {t \in Slots : fetches[t].st \in {"inflight", "delay"}}}
    \cup {f.url : f \in orphans}

\* the repository the handler is at
CurrentRepo == agg.repos[loop.repo].id

\* C15 as claimed: requests in flight at the same time are for the commits, pulls
\* and issues of one repository; while a fetch of a repository other than the one
\* the handler is at has not settled, no fetch of the handler is running and no
\* store operation is in progress.
C15_AsClaimed ==
    /\ \A u, v \in RequestsInFlight :
          u # v => /\ {u.kind, v.kind} \subseteq {"commits", "pulls", "issues"}
                   /\ u.of = v.of
    /\ w.st \in {"delete", "insert"} => FetchesRunning = {}
    /\ pc = "timeline" => FetchesRunning \subseteq {fetches["timeline"].url}
    /\ pc = "detail" =>
          \A u \in FetchesRunning : u.kind \in {"commits", "pulls", "issues"} /\ u.of = CurrentRepo

-----------------------------------------------------------------------------
(* Properties of a batchInsert call that fails *)

\* an insertMany of the call was rejected, after deleteMany had succeeded
InsertFailed == w.st = "threw" /\ Len(w.ops) >= 1

Range(seq) == {seq[k] : k \in 1..Len(seq)}

\* C16: when an insertMany of a batchInsert call is rejected, the call throws (it
\* returns nothing) and the collection holds exactly the batches of docs inserted
\* before, in order, a prefix of docs that may be empty, and no document it held
\* before the call other than those.
C16_PartialAfterInsertFailure ==
    InsertFailed =>
        /\ w.ops[1].op = "delete"
        /\ coll[w.name] = Flatten([k \in 1..Len(w.ops) |-> w.ops[k].docs])
        /\ coll[w.name] = SubSeq(w.docs, 1, (Len(w.ops) - 1) * w.bs)
        /\ Len(coll[w.name]) < Len(w.docs)
        /\ Range(w.before) \cap Range(coll[w.name]) \subseteq Range(w.docs)
        /\ w.ret = 0

\* the second insertMany of a call with three docs in batches of two was rejected:
\* the collection holds the first two docs and not the document it held before
C16_Witness ==
    /\ pc = "writer" /\ InsertFailed
    /\ w.bs = 2 /\ Len(w.docs) = 3
    /\ Len(w.ops) = 2
    /\ coll[w.name] = SubSeq(w.docs, 1, 2)
    /\ w.before # <<>> /\ Range(w.before) \cap Range(w.docs) = {}

-----------------------------------------------------------------------------
(* Pacing and termination of fetchAllPages *)

\* the page is one after which the loop ends: empty, short, or reaching the cap
Terminal(f, k) ==
    \/ Len(f.served[k]) = 0
    \/ Len(f.served[k]) < per_page
    \/ AccumulatedAfter(f, k) >= f.max

\* C17: a call that has issued n >= 1 page requests has waited n - 1 times, once
\* before each request but the first; it is waiting for the n-th time only after the
\* n-th page was served and was not terminal, and it never waits after a terminal
\* page.
C17_OneDelayBetweenPages ==
    LET f == TheFetch IN
    f.st # "idle" =>
        /\ f.st \in {"inflight", "done", "failed"} => f.delays = Len(f.reqs) - 1
        /\ f.st = "delay" =>
              /\ f.delays = Len(f.reqs)
              /\ Len(f.served) = Len(f.reqs)
              /\ ~Terminal(f, Len(f.served))
        /\ \A k \in 1..Len(f.served) :
              Terminal(f, k) => (f.st = "done" /\ k = Len(f.served) /\ f.delays = k - 1)

\* three pages were requested with two waits, the third page was short
C17_Witness ==
    LET f == TheFetch IN
    /\ pc = "fetcher" /\ f.st = "done"
    /\ f.reqs = <<1, 2, 3>> /\ f.delays = 2
    /\ Len(f.served) = 3 /\ Len(f.served[3]) < per_page

\* the smallest integer not below a / b
Ceil(a, b) == (a + b - 1) \div b

\* the call never issues more than ceil(maxItems / per_page) requests, and every page
\* it went on after held at least per_page items and left the total below maxItems
BoundedRequests ==
    LET f == TheFetch IN
    f.st # "idle" =>
        /\ f.max >= 1
        /\ Len(f.reqs) <= Ceil(f.max, per_page)
        /\ \A k \in 1..(Len(f.reqs) - 1) :
              /\ Len(f.served[k]) >= per_page
              /\ AccumulatedAfter(f, k) < f.max

\* C20: whatever pages GitHub serves, full pages without end included, a call with
\* maxItems >= 1 issues at most ceil(maxItems / per_page) requests, goes on only
\* after a page of at least per_page items that leaves the total below maxItems,
\* and, its requests being answered, ends.
C20_Terminates == []BoundedRequests /\ <>[]Settled(TheFetch)

\* a call with a cap of 2000 ended after 20 full pages, its 20th request the last
C20_Witness ==
    LET f == TheFetch IN
    /\ pc = "fetcher" /\ f.st = "done"
    /\ f.max = DefaultMaxItems
    /\ Len(f.reqs) = Ceil(DefaultMaxItems, per_page)
    /\ \A k \in 1..Len(f.served) : Len(f.served[k]) = per_page

-----------------------------------------------------------------------------
(* Contribution of one repository *)

\* the documents of a list that belong to the repository: their path starts with
\* the path of the repository
Under(id, repo) == Len(id) >= Len(repo) /\ SubSeq(id, 1, Len(repo)) = repo

Of(list, repo) == SelectSeq(list, LAMBDA x : Under(x.id, repo))

\* GitHub failed a request of the commits, pulls or issues fetch of the repository
RepoFailed(repo) ==
    \E kind \in {"commits", "pulls", "issues"} : Url(kind, repo) \in hist.failedUrls

\* the k-th repository is past its Promise.all
Processed(k) == k < loop.repo \/ (k = loop.repo /\ pc # "detail")

\* a timeline was requested for an issue of the repository
TimelineRequested(repo) ==
    \/ \E k \in 1..Len(hist.timelines) : Under(hist.timelines[k].issue, repo)
    \/ fetches["timeline"].st # "idle" /\ Under(fetches["timeline"].url.of, repo)

\* C19: a repository one of whose three fetches failed has nothing in the
\* aggregated commits, pulls, issues, changelogs and users, and no timeline is
\* requested for it; a repository past its three fetches without failure has all
\* three lists, as fetched, in the aggregated commits, pulls and issues.
C19_AllOrNothing ==
    \A k \in 1..Len(agg.repos) :
        LET repo == agg.repos[k].id IN
        /\ RepoFailed(repo) =>
              /\ Of(agg.commits, repo) = <<>>
              /\ Of(agg.pulls, repo) = <<>>
              /\ Of(agg.issues, repo) = <<>>
              /\ Of(agg.changelogs, repo) = <<>>
              /\ Of(agg.users, repo) = <<>>
              /\ ~TimelineRequested(repo)
        /\ (Processed(k) /\ ~RepoFailed(repo)) =>
              /\ Of(agg.commits, repo) = hist.detail[k].commits
              /\ Of(agg.pulls, repo) = hist.detail[k].pulls
              /\ Of(agg.issues, repo) = hist.detail[k].issues
              /\ hist.detail[k].commits # <<>>

\* of two repositories the first had its pulls fetch fail and its commits fetch
\* succeed: nothing of it is aggregated, all of the second is
C19_Witness ==
    /\ pc = "done" /\ Len(agg.repos) = 2
    /\ hist.failedUrls = {Url("pulls", agg.repos[1].id)}
    /\ orphans = {}
    /\ Of(agg.commits, agg.repos[1].id) = <<>>
    /\ agg.commits # <<>> /\ agg.commits = Of(agg.commits, agg.repos[2].id)
    /\ agg.issues # <<>> /\ agg.changelogs # <<>>

-----------------------------------------------------------------------------
(* Two overlapping runs *)

\* the batch a run hands to batchInsert for each collection, from what it aggregated
BatchOfRun(a, c) ==
    CASE c = "github-organizations" -> a.orgs
      [] c = "github-repositories" -> a.repos
      [] c = "github-commits" -> a.commits
      [] c = "github-pulls" -> a.pulls
      [] c = "github-issues" -> a.issues
      [] c = "github-issue-changelogs" -> a.changelogs
      [] c = "github-users" -> uniqueUsers(a.users)

\* both runs have answered their request with success
BothSucceeded ==
    /\ parked # <<>>
    /\ RunSucceeded
    /\ parked[1].pc = "done" /\ parked[1].res = "200"

\* C18 as claimed: once two runs handled at the same time have both finished, each
\* collection holds exactly the batch one of the two runs wrote to it.
C18_AsClaimed ==
    BothSucceeded =>
        \A c \in Collections :
            \/ coll[c] = BatchOfRun(agg, c)
            \/ coll[c] = BatchOfRun(parked[1].agg, c)

====
